---- MODULE Spec2Model ----
(***************************************************************************)
(* The posts resource of the blog server: the Post collection of the       *)
(* document store (server/models/Post.js) and the eight request handlers   *)
(* of server/routes/posts.js.  A handler runs as a sequence of atomic      *)
(* store operations; between two awaited store operations of one request,  *)
(* the store operations of the other in-flight requests may run.           *)
(***************************************************************************)
EXTENDS Integers, Sequences, FiniteSets, TLC

(* ------------------------------------------------------------------ *)
(* Bounds of the model.                                               *)
(* ------------------------------------------------------------------ *)
\* Post ids the store hands out (ObjectIds 1..MaxPosts).
MaxPosts == 2
\* Date.now() runs over 1..MaxClock.
MaxClock == 2
\* Requests received in one behaviour: of the whole server, and of the
\* servers that take only the requests one group of properties is about.
MaxOps == 2
OpsSlug == 4
OpsLike == 5
OpsRead == 4
OpsWrite == 2
OpsDerive == 3
OpsOwner == 4
OpsGone == 5
OpsList == 3
OpsFrame == 4

(* ------------------------------------------------------------------ *)
(* Program constants.                                                 *)
(* ------------------------------------------------------------------ *)
TitleMaxLen == 200
ExcerptMaxLen == 300
ExcerptCut == 150
WordsPerMinute == 200
DefaultPage == 1
DefaultLimit == 10
MaxLimit == 50
TagsMin == 1
TagsMax == 2

(* ------------------------------------------------------------------ *)
(* Users.  The identity provider is outside the posts resource: a      *)
(* request arrives with req.user set to a user, or unset (Anon).       *)
(* ------------------------------------------------------------------ *)
Users == {"ann", "root"}
Anon == "anon"
Role(u) == IF u = "root" THEN "admin" ELSE "user"

(* ------------------------------------------------------------------ *)
(* Strings are sequences of one-character strings.                     *)
(* ------------------------------------------------------------------ *)
LowerLetters == {"a", "b", "w"}
UpperLetters == {"A", "B", "W"}
Digits == {"0", "1", "2", "3", "4", "5", "6", "7", "8", "9"}

IsSpace(c) == c = " "

\* String.prototype.toLowerCase, one character.
ToLowerChar(c) ==
  CASE c = "A" -> "a"
    [] c = "B" -> "b"
    [] c = "W" -> "w"
    [] OTHER -> c

ToLowerCase(s) == [i \in 1..Len(s) |-> ToLowerChar(s[i])]

\* s.replace(/[class]/g, ''): the characters of s that are in keep.
KeepChars(s, keep) == SelectSeq(s, LAMBDA c : c \in keep)

\* s.replace(/[class]+/g, by): every maximal run of characters of class
\* becomes the one character by.
RECURSIVE ReplaceRuns(_, _, _)
ReplaceRuns(s, class, by) ==
  IF s = <<>> THEN <<>>
  ELSE IF Head(s) \in class
       THEN IF Len(s) > 1 /\ s[2] \in class
            THEN ReplaceRuns(Tail(s), class, by)
            ELSE <<by>> \o ReplaceRuns(Tail(s), class, by)
       ELSE <<Head(s)>> \o ReplaceRuns(Tail(s), class, by)

RECURSIVE TrimLeft(_)
TrimLeft(s) ==
  IF s # <<>> /\ IsSpace(Head(s)) THEN TrimLeft(Tail(s)) ELSE s

RECURSIVE TrimRight(_)
TrimRight(s) ==
  IF s # <<>> /\ IsSpace(s[Len(s)]) THEN TrimRight(SubSeq(s, 1, Len(s) - 1)) ELSE s

\* String.prototype.trim (its argument, if any, is ignored).
Trim(s) == TrimRight(TrimLeft(s))

\* s.substring(0, n)
Substring0(s, n) == SubSeq(s, 1, IF Len(s) < n THEN Len(s) ELSE n)

\* The decimal digits of a natural number, as '' + n gives them.
DigitOf(d) ==
  CASE d = 0 -> "0" [] d = 1 -> "1" [] d = 2 -> "2" [] d = 3 -> "3" [] d = 4 -> "4"
    [] d = 5 -> "5" [] d = 6 -> "6" [] d = 7 -> "7" [] d = 8 -> "8" [] d = 9 -> "9"

RECURSIVE Decimal(_)
Decimal(n) ==
  IF n < 10 THEN <<DigitOf(n)>> ELSE Decimal(n \div 10) \o <<DigitOf(n % 10)>>

\* Math.ceil(a / b) for a >= 0, b > 0.
CeilDiv(a, b) == (a + b - 1) \div b

(* ------------------------------------------------------------------ *)
(* Derived fields.                                                     *)
(* ------------------------------------------------------------------ *)
\* slugify(title, { lower: true, strict: true }) of the create handler:
\* the replacement character counts as a space, strict drops whatever is
\* not a letter, a digit or whitespace, the result is trimmed, whitespace
\* runs become '-', and the whole is lower-cased.
Slugify(title) ==
  LET spaced == [i \in 1..Len(title) |-> IF title[i] = "-" THEN " " ELSE title[i]]
      strict == KeepChars(spaced, LowerLetters \cup UpperLetters \cup Digits \cup {" "})
  IN ToLowerCase(ReplaceRuns(Trim(strict), {" "}, "-"))

\* The slug the pre('save') hook derives from the title.
HookSlugBase(title) ==
  LET kept == KeepChars(ToLowerCase(title), LowerLetters \cup Digits \cup {" ", "-"})
  IN Trim(ReplaceRuns(ReplaceRuns(kept, {" "}, "-"), {"-"}, "-"))

\* this.content.split(/\s+/).length: one more than the number of maximal
\* whitespace runs.
SpaceRuns(s) ==
  Cardinality({i \in 1..Len(s) : IsSpace(s[i]) /\ (i = Len(s) \/ ~IsSpace(s[i + 1]))})

WordCount(content) == SpaceRuns(content) + 1

ReadTimeOf(content) == CeilDiv(WordCount(content), WordsPerMinute)

Ellipsis == <<".", ".", ".">>

\* The backquote character, written out.
Backquote == "backquote"

\* The characters the excerpt's replace() strips: # * and the backquote.
MarkupChars == {"#", "*", Backquote}

\* The cut text is not trimmed.
ExcerptOf_NoTrim(content) ==
  LET all == {content[i] : i \in 1..Len(content)}
  IN Substring0(KeepChars(content, all \ MarkupChars), ExcerptCut) \o Ellipsis

\* The excerpt the pre('save') hook derives from the content.
ExcerptOf(content) ==
  LET all == {content[i] : i \in 1..Len(content)}
  IN Trim(Substring0(KeepChars(content, all \ MarkupChars), ExcerptCut)) \o Ellipsis

(* ------------------------------------------------------------------ *)
(* State.                                                              *)
(* ------------------------------------------------------------------ *)
VARIABLES
  posts,    \* the Post collection: _id -> document
  nextId,   \* the next _id the store assigns
  now,      \* Date.now()
  reqs,     \* the requests being served, one per connection
  last,     \* the request answered last, with its response
  budget    \* requests still to be received

vars == <<posts, nextId, now, reqs, last, budget>>

\* The connections on which requests are served at the same time.
Slots == {1, 2}

\* An optional value: <<>> when absent, <<v>> when present.
None == <<>>
Some(v) == <<v>>
Has(o) == o # <<>>
Val(o) == o[1]

SeqToSet(q) == {q[i] : i \in 1..Len(q)}

TagEnum == {"technical", "personal"}
PrivacyEnum == {"public", "private"}
StatusEnum == {"draft", "published"}

\* req.body of create and update; an absent field is None.  The last four
\* are fields of a post that no handler reads from the body.
EmptyBody ==
  [title |-> None, content |-> None, tags |-> None, privacy |-> None,
   excerpt |-> None, coverImage |-> None, status |-> None, featured |-> None,
   author |-> None, slug |-> None, views |-> None, likes |-> None]

\* req.query of the list operation.
EmptyQuery == [tags |-> None, page |-> None, limit |-> None]

\* The response: the HTTP status and the JSON members the handlers send.
NoRes ==
  [status |-> 0, message |-> "", post |-> None, posts |-> <<>>, pagination |-> None,
   liked |-> None, likesCount |-> None]

Res(st, msg) == [NoRes EXCEPT !.status = st, !.message = msg]

\* A request: its route, its inputs, the handler's position and locals.
IdleReq ==
  [op |-> "none", pc |-> "idle", user |-> Anon, id |-> 0, slug |-> <<>>,
   body |-> EmptyBody, query |-> EmptyQuery,
   post |-> None, isLiked |-> FALSE, found |-> <<>>, res |-> NoRes]

NewReq(op, u) == [IdleReq EXCEPT !.op = op, !.user = u, !.pc = "start"]

\* A malformed identifier, and param('id').isMongoId().
BadId == -1
IsMongoId_Any(x) == TRUE
IsMongoId(x) == x >= 1

Free(s) == reqs[s].pc = "idle"

\* A request is taken on the first connection that is not serving one.
CanStart(s) ==
  /\ budget > 0
  /\ Free(s)
  /\ \A t \in Slots : t < s => ~Free(t)

Exists(id) == id \in DOMAIN posts

\* The documents as a set.
Docs == {posts[i] : i \in DOMAIN posts}

\* Only published posts are found.
FindBySlug_Published(slug) == {p \in Docs : p.slug = slug /\ p.status = "published"}

\* Post.findOne({ slug })
FindBySlug(slug) == {p \in Docs : p.slug = slug}

\* The server starts on an empty collection, with n requests to come.
InitWith(n) ==
  /\ posts = <<>>
  /\ nextId = 1
  /\ now = 1
  /\ reqs = [s \in Slots |-> IdleReq]
  /\ last = IdleReq
  /\ budget = n

Init == InitWith(MaxOps)

\* Time passes.
Tick ==
  /\ now < MaxClock
  /\ now' = now + 1
  /\ UNCHANGED <<posts, nextId, reqs, last, budget>>

\* res.status(st).json(...) ends request r, which connection s was serving.
Answer(s, r, res) ==
  /\ last' = [r EXCEPT !.pc = "done", !.res = res]
  /\ reqs' = [reqs EXCEPT ![s] = IdleReq]

\* The handler goes on to its next store operation.
Continue(s, r) ==
  /\ reqs' = [reqs EXCEPT ![s] = r]
  /\ UNCHANGED last

Respond(s, res) == Answer(s, reqs[s], res)

\* A failed write is reported as a bad request.
ServerError_BadRequest == Res(400, "Server error")

\* The catch block of a handler.
ServerError == Res(500, "Server error")

(* ------------------------------------------------------------------ *)
(* Inputs.                                                             *)
(* ------------------------------------------------------------------ *)
\* Titles: two that give the same hook slug, one whose slugify() result
\* can equal a stored slug, one that is blank once trimmed.
TitleInputs == {<<"A">>, <<"a", " ", "1">>, <<" ">>}
ContentInputs == {<<"#", "w", " ", "w">>, <<>>}
TagsInputs ==
  {<<"technical">>, <<"personal", "technical">>, <<>>, <<"other">>,
   <<"technical", "personal", "technical">>}
PrivacyInputs == {"public", "private", "secret"}
\* A text of n one-letter words, one space between two words.
WordsText(n) == [i \in 1..(2 * n - 1) |-> IF i % 2 = 1 THEN "w" ELSE " "]

\* An excerpt one character longer than the schema admits.
LongExcerpt == [i \in 1..(ExcerptMaxLen + 1) |-> "e"]

ExcerptInputs == {<<"e">>, LongExcerpt}
CoverInputs == {<<"u">>}
StatusInputs == {"draft", "published", "archived"}

ValidTitle == Some(<<"A">>)
ValidContent == Some(<<"#", "w", " ", "w">>)
ValidTags == Some(<<"technical">>)

\* Bodies of create requests: the well-formed ones, and one per way of
\* being malformed.
CreateBodies ==
  {[EmptyBody EXCEPT !.title = Some(t), !.content = ValidContent, !.tags = Some(g),
                     !.privacy = Some(v), !.featured = f] :
     t \in {<<"A">>, <<"a", " ", "1">>}, g \in {<<"technical">>},
     v \in PrivacyEnum, f \in {None, Some(TRUE)}}
  \cup {[EmptyBody EXCEPT !.title = ValidTitle, !.content = ValidContent, !.tags = ValidTags,
                          !.privacy = Some("public"), !.excerpt = Some(e)] : e \in ExcerptInputs}
  \cup {[EmptyBody EXCEPT !.title = Some(t), !.content = ValidContent, !.tags = ValidTags,
                          !.privacy = Some("public")] : t \in TitleInputs}
  \cup {[EmptyBody EXCEPT !.title = ValidTitle, !.content = Some(c), !.tags = ValidTags,
                          !.privacy = Some("public")] : c \in ContentInputs}
  \cup {[EmptyBody EXCEPT !.title = ValidTitle, !.content = ValidContent, !.tags = Some(g),
                          !.privacy = Some("public")] : g \in TagsInputs}
  \cup {[EmptyBody EXCEPT !.title = ValidTitle, !.content = ValidContent, !.tags = ValidTags,
                          !.privacy = Some(v)] : v \in PrivacyInputs}

\* What a body can carry for the fields no handler reads from it.
IgnoredFields ==
  [EmptyBody EXCEPT !.author = Some("root"), !.slug = Some(<<"x">>),
                    !.views = Some(7), !.likes = Some(<<"root">>)]

\* Bodies of update requests: one field each, and one that also carries
\* the fields no handler reads.
UpdateBodies ==
  {[EmptyBody EXCEPT !.title = Some(t)] : t \in TitleInputs}
  \cup {[EmptyBody EXCEPT !.content = Some(c)] : c \in {<<"w">>, <<>>}}
  \cup {[EmptyBody EXCEPT !.excerpt = Some(e)] : e \in ExcerptInputs}
  \cup {[EmptyBody EXCEPT !.coverImage = Some(c)] : c \in CoverInputs}
  \cup {[IgnoredFields EXCEPT !.privacy = Some("private")]}
  \cup {[EmptyBody EXCEPT !.tags = Some(g)] : g \in TagsInputs}
  \cup {[EmptyBody EXCEPT !.privacy = Some(v)] : v \in PrivacyInputs}
  \cup {[EmptyBody EXCEPT !.status = Some(v)] : v \in StatusInputs}
  \cup {[EmptyBody EXCEPT !.featured = Some(TRUE)]}

\* Identifiers in requests: those the store can hand out, and a malformed one.
IdInputs == (1..MaxPosts) \cup {BadId}

(* ------------------------------------------------------------------ *)
(* Validation chains (express-validator).                              *)
(* ------------------------------------------------------------------ *)
\* The upper bound on the number of tags is not checked.
TagsValid_NoMax(tags) ==
  /\ Len(tags) >= TagsMin
  /\ \A i \in 1..Len(tags) : tags[i] \in TagEnum

TagsValid(tags) ==
  /\ Len(tags) >= TagsMin
  /\ Len(tags) <= TagsMax
  /\ \A i \in 1..Len(tags) : tags[i] \in TagEnum

ValidCreate(b) ==
  /\ Has(b.title) /\ Trim(Val(b.title)) # <<>> /\ Len(Trim(Val(b.title))) <= TitleMaxLen
  /\ Has(b.content) /\ Val(b.content) # <<>>
  /\ Has(b.tags) /\ TagsValid(Val(b.tags))
  /\ Has(b.privacy) /\ Val(b.privacy) \in PrivacyEnum
  /\ (Has(b.excerpt) => Len(Val(b.excerpt)) <= ExcerptMaxLen)

ValidUpdate(id, b) ==
  /\ IsMongoId(id)
  /\ (Has(b.title) => Len(Trim(Val(b.title))) >= 1 /\ Len(Trim(Val(b.title))) <= TitleMaxLen)
  /\ (Has(b.content) => Val(b.content) # <<>>)
  /\ (Has(b.tags) => TagsValid(Val(b.tags)))
  /\ (Has(b.privacy) => Val(b.privacy) \in PrivacyEnum)

\* body('title').trim() rewrites req.body.title.
Sanitized(b) == IF Has(b.title) THEN [b EXCEPT !.title = Some(Trim(Val(b.title)))] ELSE b

(* ------------------------------------------------------------------ *)
(* POST /api/posts                                                     *)
(* ------------------------------------------------------------------ *)
\* The document new Post({...}).save() writes: the pre('save') hook has set
\* the slug, the read time and, if none was given, the excerpt.
NewPost(id, u, b, time) ==
  [id |-> id,
   title |-> Val(b.title),
   slug |-> HookSlugBase(Val(b.title)) \o <<"-">> \o Decimal(time),
   content |-> Val(b.content),
   excerpt |-> IF Has(b.excerpt) /\ Val(b.excerpt) # <<>>
               THEN Val(b.excerpt) ELSE ExcerptOf(Val(b.content)),
   readTime |-> ReadTimeOf(Val(b.content)),
   coverImage |-> IF Has(b.coverImage) THEN Val(b.coverImage) ELSE <<>>,
   tags |-> Val(b.tags),
   privacy |-> Val(b.privacy),
   status |-> "published",
   author |-> u,
   featured |-> IF Has(b.featured) /\ Val(b.featured) /\ Role(u) = "admin"
                THEN Val(b.featured) ELSE FALSE,
   views |-> 0,
   likes |-> <<>>,
   ver |-> 0,
   createdAt |-> time]

\* The schema's validators, which save() runs before the insert.
SchemaValidates(doc) ==
  /\ doc.title # <<>> /\ Len(doc.title) <= TitleMaxLen
  /\ doc.content # <<>>
  /\ Len(doc.excerpt) <= ExcerptMaxLen
  /\ Len(doc.tags) > 0 /\ Len(doc.tags) <= TagsMax
  /\ \A i \in 1..Len(doc.tags) : doc.tags[i] \in TagEnum
  /\ doc.privacy \in PrivacyEnum
  /\ doc.status \in StatusEnum

\* No unique index: every document is admitted.
SlugIndexAdmits_NoIndex(doc) == TRUE

\* The unique index on slug admits the document.
SlugIndexAdmits(doc) == \A p \in Docs : p.slug # doc.slug

CreatesInFlight == Cardinality({t \in Slots : reqs[t].op = "create" /\ reqs[t].pc = "save"})

\* Validation, slugify, and the look-up of the slug.
CreatePost(s, u, b) ==
  /\ CanStart(s)
  /\ nextId + CreatesInFlight <= MaxPosts
  /\ budget' = budget - 1
  /\ LET r == [NewReq("create", u) EXCEPT !.body = b] IN
       IF ~ValidCreate(b)
       THEN Answer(s, r, Res(400, "Validation failed"))
       ELSE IF FindBySlug(Slugify(Val(Sanitized(b).title))) # {}
       THEN Answer(s, r, Res(400, "Slug already exists"))
       ELSE Continue(s, [r EXCEPT !.pc = "save", !.body = Sanitized(b)])
  /\ UNCHANGED <<posts, nextId, now>>

\* post.save(): validation and the insert, which the unique index may refuse.
CreatePostSave(s) ==
  /\ reqs[s].op = "create"
  /\ reqs[s].pc = "save"
  /\ LET doc == NewPost(nextId, reqs[s].user, reqs[s].body, now) IN
       IF SchemaValidates(doc) /\ SlugIndexAdmits(doc)
       THEN /\ posts' = (nextId :> doc) @@ posts
            /\ nextId' = nextId + 1
            /\ Respond(s, [Res(201, "Post created successfully") EXCEPT !.post = Some(doc)])
       ELSE /\ Respond(s, ServerError)
            /\ UNCHANGED <<posts, nextId>>
  /\ UNCHANGED <<now, budget>>

(* ------------------------------------------------------------------ *)
(* GET /api/posts and GET /api/posts/user/:userId                      *)
(* ------------------------------------------------------------------ *)
\* .select('-content')
Summary(p) == [f \in (DOMAIN p) \ {"content"} |-> p[f]]

\* .sort({ createdAt: -1 }): the orders of the documents of S with the
\* newest first; documents created in the same millisecond come in any order.
RECURSIVE SortedOrders(_)
SortedOrders(S) ==
  IF S = {} THEN {<<>>}
  ELSE UNION {{<<Summary(p)>> \o rest : rest \in SortedOrders(S \ {p})} :
                p \in {x \in S : \A y \in S : x.createdAt >= y.createdAt}}

\* A signed-in caller is shown every private post.
ListVisible_AnyPrivate(u, p) == IF u = Anon THEN p.privacy = "public" ELSE TRUE

\* The privacy part of the list filter.
ListVisible(u, p) ==
  IF u = Anon
  THEN p.privacy = "public"
  ELSE p.privacy = "public" \/ (p.privacy = "private" /\ p.author = u)

\* The filter of the list operation.
ListFilter(u, q, p) ==
  /\ p.status = "published"
  /\ ListVisible(u, p)
  /\ (Has(q.tags) => SeqToSet(Val(q.tags)) \cap SeqToSet(p.tags) # {})

\* query('tags').isIn([...]): the comma-joined lists the validator admits.
TagsQueryAdmitted == {<<"technical">>, <<"personal">>, <<"technical", "personal">>}

ValidQuery(q) ==
  /\ (Has(q.tags) => Val(q.tags) \in TagsQueryAdmitted)
  /\ (Has(q.page) => Val(q.page) >= 1)
  /\ (Has(q.limit) => Val(q.limit) >= 1 /\ Val(q.limit) <= MaxLimit)

PageOf(q) == IF Has(q.page) /\ Val(q.page) # 0 THEN Val(q.page) ELSE DefaultPage
LimitOf(q) == IF Has(q.limit) /\ Val(q.limit) # 0 THEN Val(q.limit) ELSE DefaultLimit

\* Nothing is skipped: every page is the first one.
PageSlice_NoSkip(all, skip, limit) ==
  SubSeq(all, 1, IF Len(all) < limit THEN Len(all) ELSE limit)

\* .skip(skip).limit(limit)
PageSlice(all, skip, limit) ==
  SubSeq(all, skip + 1, IF Len(all) < skip + limit THEN Len(all) ELSE skip + limit)

QueryInputs ==
  {[EmptyQuery EXCEPT !.tags = t] :
     t \in {None, Some(<<"technical">>), Some(<<"personal">>),
            Some(<<"technical", "personal">>), Some(<<"personal", "technical">>),
            Some(<<"other">>)}}
  \cup {[EmptyQuery EXCEPT !.page = pg] : pg \in {Some(0), Some(2)}}
  \cup {[EmptyQuery EXCEPT !.limit = l] : l \in {Some(1), Some(MaxLimit + 1)}}
  \cup {[EmptyQuery EXCEPT !.page = Some(2), !.limit = Some(1)]}

\* Validation and Post.find(filter).sort().skip().limit().
GetPosts(s, u, q) ==
  /\ CanStart(s)
  /\ budget' = budget - 1
  /\ LET r == [NewReq("list", u) EXCEPT !.query = q] IN
       IF ~ValidQuery(q)
       THEN Answer(s, r, Res(400, "Validation failed"))
       ELSE \E all \in SortedOrders({p \in Docs : ListFilter(u, q, p)}) :
              Continue(s, [r EXCEPT !.pc = "count",
                                    !.found = PageSlice(all, (PageOf(q) - 1) * LimitOf(q),
                                                        LimitOf(q))])
  /\ UNCHANGED <<posts, nextId, now>>

\* Post.countDocuments(filter) and the response.
GetPostsCount(s) ==
  /\ reqs[s].op = "list"
  /\ reqs[s].pc = "count"
  /\ LET q == reqs[s].query
         total == Cardinality({p \in Docs : ListFilter(reqs[s].user, q, p)})
     IN Respond(s, [Res(200, "") EXCEPT
                      !.posts = reqs[s].found,
                      !.pagination =
                         Some([page |-> PageOf(q), limit |-> LimitOf(q), total |-> total,
                               pages |-> CeilDiv(total, LimitOf(q)),
                               hasNext |-> PageOf(q) * LimitOf(q) < total,
                               hasPrev |-> PageOf(q) > 1])])
  /\ UNCHANGED <<posts, nextId, now, budget>>

\* User ids in requests: the users, a well-formed id of no user, a malformed one.
UserIdInputs == Users \cup {"nobody", "malformed"}
IsMongoIdOfUser(x) == x # "malformed"

\* The author is shown their own drafts.
UserPostsFilter_OwnDrafts(u, userId, p) ==
  /\ p.author = userId
  /\ (p.status = "published" \/ u = userId)
  /\ ((u = Anon \/ u # userId) => p.privacy = "public")

\* The filter of the list-by-author operation.
UserPostsFilter(u, userId, p) ==
  /\ p.author = userId
  /\ p.status = "published"
  /\ ((u = Anon \/ u # userId) => p.privacy = "public")

\* The list-by-author operation; req.params.userId is kept in slug.
GetUserPosts(s, u, userId) ==
  /\ CanStart(s)
  /\ budget' = budget - 1
  /\ LET r == [NewReq("listUser", u) EXCEPT !.slug = <<userId>>] IN
       IF ~IsMongoIdOfUser(userId)
       THEN Answer(s, r, Res(400, "Validation failed"))
       ELSE \E all \in SortedOrders({p \in Docs : UserPostsFilter(u, userId, p)}) :
              Answer(s, r, [Res(200, "") EXCEPT !.posts = all])
  /\ UNCHANGED <<posts, nextId, now>>

(* ------------------------------------------------------------------ *)
(* GET /api/posts/id/:id                                               *)
(* ------------------------------------------------------------------ *)
\* An admin may read any post by id.
MayGetById_OrAdmin(u, p) == p.author = u \/ Role(u) = "admin"

\* The author check of get by id.
MayGetById(u, p) == p.author = u

GetPostById(s, u, id) ==
  /\ CanStart(s)
  /\ budget' = budget - 1
  /\ LET r == [NewReq("getId", u) EXCEPT !.id = id] IN
       IF ~IsMongoId(id)
       THEN Answer(s, r, Res(400, "Validation failed"))
       ELSE IF ~Exists(id)
       THEN Answer(s, r, Res(404, "Post not found"))
       ELSE IF ~MayGetById(u, posts[id])
       THEN Answer(s, [r EXCEPT !.post = Some(posts[id])],
                   Res(403, "Access denied - not the author"))
       ELSE Answer(s, [r EXCEPT !.post = Some(posts[id])],
                   [Res(200, "") EXCEPT !.post = Some(posts[id])])
  /\ UNCHANGED <<posts, nextId, now>>

(* ------------------------------------------------------------------ *)
(* GET /api/posts/:slug                                                *)
(* ------------------------------------------------------------------ *)
\* Slugs in requests: the stored ones and one that no post has.
SlugInputs == {p.slug : p \in Docs} \cup {<<"x">>}

\* Any signed-in caller may read a private post.
SlugReadable_AnySignedIn(u, p) == p.privacy = "private" => u # Anon

\* The privacy check of get by slug: the caller may read p.
SlugReadable(u, p) == p.privacy = "private" => (u # Anon /\ u = p.author)

\* The view is counted: the post is public and the caller is not its author.
CountsView(u, p) == p.privacy = "public" /\ (u = Anon \/ u # p.author)

\* Post.findOne({ slug }) and the privacy check.
GetPostBySlug(s, u, slug) ==
  /\ CanStart(s)
  /\ budget' = budget - 1
  /\ LET r == [NewReq("getSlug", u) EXCEPT !.slug = slug]
         hit == FindBySlug(slug)
         p == CHOOSE x \in hit : TRUE
     IN
       IF hit = {}
       THEN Answer(s, r, Res(404, "Post not found"))
       ELSE IF ~SlugReadable(u, p)
       THEN Answer(s, [r EXCEPT !.post = Some(p)], Res(403, "Access denied to private post"))
       ELSE IF CountsView(u, p)
       THEN Continue(s, [r EXCEPT !.pc = "inc", !.post = Some(p)])
       ELSE Answer(s, [r EXCEPT !.post = Some(p)], [Res(200, "") EXCEPT !.post = Some(p)])
  /\ UNCHANGED <<posts, nextId, now>>

\* The views are written back from the copy the handler read.
IncViews_FromCopy(stored, copy) == [stored EXCEPT !.views = copy.views + 1]

\* The stored document after findByIdAndUpdate(id, { $inc: { views: 1 } });
\* copy is the document the handler read.
IncViews(stored, copy) == [stored EXCEPT !.views = stored.views + 1]

\* The $inc of views in the store, post.views += 1 on the copy, the response.
GetPostBySlugInc(s) ==
  /\ reqs[s].op = "getSlug"
  /\ reqs[s].pc = "inc"
  /\ LET p == Val(reqs[s].post) IN
       /\ posts' = IF Exists(p.id) THEN [posts EXCEPT ![p.id] = IncViews(@, p)] ELSE posts
       /\ Respond(s, [Res(200, "") EXCEPT !.post = Some([p EXCEPT !.views = @ + 1])])
  /\ UNCHANGED <<nextId, now, budget>>

(* ------------------------------------------------------------------ *)
(* PUT /api/posts/:id                                                  *)
(* ------------------------------------------------------------------ *)
\* An admin may update as well, as for delete.
MayUpdate_OrAdmin(u, p) == p.author = u \/ Role(u) = "admin"

\* The ownership check of update.
MayUpdate(u, p) == p.author = u

\* The schema validators that runValidators applies to the update.
UpdateValidatorsPass(b) ==
  /\ (Has(b.title) => Len(Val(b.title)) <= TitleMaxLen)
  /\ (Has(b.excerpt) => Len(Val(b.excerpt)) <= ExcerptMaxLen)
  /\ (Has(b.tags) => TagsValid(Val(b.tags)))
  /\ (Has(b.privacy) => Val(b.privacy) \in PrivacyEnum)
  /\ (Has(b.status) => Val(b.status) \in StatusEnum)

\* Whoever the caller is, featured is taken from the body.
ApplyUpdate_AnyFeatured(p, b, u) ==
  [p EXCEPT !.title = IF Has(b.title) THEN Val(b.title) ELSE @,
            !.content = IF Has(b.content) THEN Val(b.content) ELSE @,
            !.tags = IF Has(b.tags) THEN Val(b.tags) ELSE @,
            !.privacy = IF Has(b.privacy) THEN Val(b.privacy) ELSE @,
            !.excerpt = IF Has(b.excerpt) THEN Val(b.excerpt) ELSE @,
            !.coverImage = IF Has(b.coverImage) THEN Val(b.coverImage) ELSE @,
            !.status = IF Has(b.status) THEN Val(b.status) ELSE @,
            !.featured = IF Has(b.featured) THEN Val(b.featured) ELSE @]

\* The whole body is written, the author with it.
ApplyUpdate_WholeBody(p, b, u) ==
  [p EXCEPT !.title = IF Has(b.title) THEN Val(b.title) ELSE @,
            !.content = IF Has(b.content) THEN Val(b.content) ELSE @,
            !.tags = IF Has(b.tags) THEN Val(b.tags) ELSE @,
            !.privacy = IF Has(b.privacy) THEN Val(b.privacy) ELSE @,
            !.excerpt = IF Has(b.excerpt) THEN Val(b.excerpt) ELSE @,
            !.coverImage = IF Has(b.coverImage) THEN Val(b.coverImage) ELSE @,
            !.status = IF Has(b.status) THEN Val(b.status) ELSE @,
            !.featured = IF Has(b.featured) /\ Role(u) = "admin" THEN Val(b.featured) ELSE @,
            !.author = IF Has(b.author) THEN Val(b.author) ELSE @]

\* views is on the allow-list as well.
ApplyUpdate_WithViews(p, b, u) ==
  [p EXCEPT !.title = IF Has(b.title) THEN Val(b.title) ELSE @,
            !.content = IF Has(b.content) THEN Val(b.content) ELSE @,
            !.tags = IF Has(b.tags) THEN Val(b.tags) ELSE @,
            !.privacy = IF Has(b.privacy) THEN Val(b.privacy) ELSE @,
            !.excerpt = IF Has(b.excerpt) THEN Val(b.excerpt) ELSE @,
            !.coverImage = IF Has(b.coverImage) THEN Val(b.coverImage) ELSE @,
            !.status = IF Has(b.status) THEN Val(b.status) ELSE @,
            !.featured = IF Has(b.featured) /\ Role(u) = "admin" THEN Val(b.featured) ELSE @,
            !.views = IF Has(b.views) THEN Val(b.views) ELSE @]

\* The document after findByIdAndUpdate(id, updateFields): the allow-listed
\* fields of the body, and featured when the caller is an admin.
ApplyUpdate(p, b, u) ==
  [p EXCEPT !.title = IF Has(b.title) THEN Val(b.title) ELSE @,
            !.content = IF Has(b.content) THEN Val(b.content) ELSE @,
            !.tags = IF Has(b.tags) THEN Val(b.tags) ELSE @,
            !.privacy = IF Has(b.privacy) THEN Val(b.privacy) ELSE @,
            !.excerpt = IF Has(b.excerpt) THEN Val(b.excerpt) ELSE @,
            !.coverImage = IF Has(b.coverImage) THEN Val(b.coverImage) ELSE @,
            !.status = IF Has(b.status) THEN Val(b.status) ELSE @,
            !.featured = IF Has(b.featured) /\ Role(u) = "admin" THEN Val(b.featured) ELSE @]

\* Validation, Post.findById and the ownership check.
UpdatePost(s, u, id, b) ==
  /\ CanStart(s)
  /\ budget' = budget - 1
  /\ LET r == [NewReq("update", u) EXCEPT !.id = id, !.body = b] IN
       IF ~ValidUpdate(id, b)
       THEN Answer(s, r, Res(400, "Validation failed"))
       ELSE IF ~Exists(id)
       THEN Answer(s, r, Res(404, "Post not found"))
       ELSE IF ~MayUpdate(u, posts[id])
       THEN Answer(s, [r EXCEPT !.post = Some(posts[id])], Res(403, "Access denied"))
       ELSE Continue(s, [r EXCEPT !.pc = "write", !.post = Some(posts[id]),
                                  !.body = Sanitized(b)])
  /\ UNCHANGED <<posts, nextId, now>>

\* Post.findByIdAndUpdate(id, updateFields, { new: true, runValidators: true }).
UpdatePostWrite(s) ==
  /\ reqs[s].op = "update"
  /\ reqs[s].pc = "write"
  /\ LET id == reqs[s].id
         b == reqs[s].body
     IN
       IF ~UpdateValidatorsPass(b)
       THEN /\ Respond(s, ServerError)
            /\ UNCHANGED posts
       ELSE IF Exists(id)
       THEN /\ posts' = [posts EXCEPT ![id] = ApplyUpdate(@, b, reqs[s].user)]
            /\ Respond(s, [Res(200, "Post updated successfully") EXCEPT
                             !.post = Some(ApplyUpdate(posts[id], b, reqs[s].user))])
       ELSE /\ Respond(s, Res(200, "Post updated successfully"))
            /\ UNCHANGED posts
  /\ UNCHANGED <<nextId, now, budget>>

(* ------------------------------------------------------------------ *)
(* DELETE /api/posts/:id                                               *)
(* ------------------------------------------------------------------ *)
\* Only the author may delete.
MayDelete_AuthorOnly(u, p) == p.author = u

\* The check of delete: the author or an admin.
MayDelete(u, p) == p.author = u \/ Role(u) = "admin"

\* Validation, Post.findById and the check.
DeletePost(s, u, id) ==
  /\ CanStart(s)
  /\ budget' = budget - 1
  /\ LET r == [NewReq("delete", u) EXCEPT !.id = id] IN
       IF ~IsMongoId(id)
       THEN Answer(s, r, Res(400, "Validation failed"))
       ELSE IF ~Exists(id)
       THEN Answer(s, r, Res(404, "Post not found"))
       ELSE IF ~MayDelete(u, posts[id])
       THEN Answer(s, [r EXCEPT !.post = Some(posts[id])], Res(403, "Access denied"))
       ELSE Continue(s, [r EXCEPT !.pc = "remove", !.post = Some(posts[id])])
  /\ UNCHANGED <<posts, nextId, now>>

\* The delete only marks the document: it stays in the collection.
WithoutPost_Kept(id) == posts

\* The collection after findByIdAndDelete(id).
WithoutPost(id) == [i \in (DOMAIN posts) \ {id} |-> posts[i]]

\* Post.findByIdAndDelete(id).
DeletePostRemove(s) ==
  /\ reqs[s].op = "delete"
  /\ reqs[s].pc = "remove"
  /\ posts' = WithoutPost(reqs[s].id)
  /\ Respond(s, Res(200, "Post deleted successfully"))
  /\ UNCHANGED <<nextId, now, budget>>

(* ------------------------------------------------------------------ *)
(* POST /api/posts/:id/like                                            *)
(* ------------------------------------------------------------------ *)
\* Every signed-in caller may like every post.
MayLike_AnyPost(u, p) == TRUE

\* A user who likes the post may always take the like back.
MayLike_OrLiked(u, p) ==
  ~(p.privacy = "private" /\ p.author # u) \/ u \in SeqToSet(p.likes)

\* The access check of like.
MayLike(u, p) == ~(p.privacy = "private" /\ p.author # u)

\* post.likes.includes(userId)
IsLiked(u, p) == u \in SeqToSet(p.likes)

\* post.likes.filter(id => id.toString() !== userId.toString())
WithoutUser(likes, u) == SelectSeq(likes, LAMBDA x : x # u)

\* The likes of the handler's copy after the toggle.
ToggledLikes(u, p) ==
  IF IsLiked(u, p) THEN WithoutUser(p.likes, u) ELSE Append(p.likes, u)

\* Validation, Post.findById, the access check, the toggle on the copy.
ToggleLike(s, u, id) ==
  /\ CanStart(s)
  /\ budget' = budget - 1
  /\ LET r == [NewReq("like", u) EXCEPT !.id = id] IN
       IF ~IsMongoId(id)
       THEN Answer(s, r, Res(400, "Validation failed"))
       ELSE IF ~Exists(id)
       THEN Answer(s, r, Res(404, "Post not found"))
       ELSE IF ~MayLike(u, posts[id])
       THEN Answer(s, [r EXCEPT !.post = Some(posts[id])], Res(403, "Access denied"))
       ELSE Continue(s, [r EXCEPT !.pc = "save", !.isLiked = IsLiked(u, posts[id]),
                                  !.post = Some([posts[id] EXCEPT
                                                   !.likes = ToggledLikes(u, posts[id])])])
  /\ UNCHANGED <<posts, nextId, now>>

\* post.save() of a loaded document whose likes changed sends only that
\* change.  A push is sent as a $push of the pushed user and needs only that
\* the document exists; an assigned array is sent as a $set of the whole
\* array and needs the stored version to be the version that was read.
\* Both add one to the version.
SaveApplies(stored, copy, isLiked) ==
  IF isLiked THEN stored.ver = copy.ver ELSE TRUE

SavedLikes(stored, copy, isLiked, u) ==
  IF isLiked THEN copy.likes ELSE Append(stored.likes, u)

ToggleLikeSave(s) ==
  /\ reqs[s].op = "like"
  /\ reqs[s].pc = "save"
  /\ LET copy == Val(reqs[s].post)
         u == reqs[s].user
         isLiked == reqs[s].isLiked
     IN
       IF Exists(copy.id) /\ SaveApplies(posts[copy.id], copy, isLiked)
       THEN /\ posts' = [posts EXCEPT ![copy.id] =
                           [@ EXCEPT !.likes = SavedLikes(posts[copy.id], copy, isLiked, u),
                                     !.ver = @ + 1]]
            /\ Respond(s, [Res(200, IF isLiked THEN "Post unliked" ELSE "Post liked") EXCEPT
                             !.liked = Some(~isLiked),
                             !.likesCount = Some(Len(copy.likes))])
       ELSE /\ Respond(s, ServerError)
            /\ UNCHANGED posts
  /\ UNCHANGED <<nextId, now, budget>>

(* ------------------------------------------------------------------ *)
(* The server.                                                         *)
(* ------------------------------------------------------------------ *)
Callers == Users \cup {Anon}

Next ==
  \/ Tick
  \/ \E s \in Slots, u \in Callers, q \in QueryInputs : GetPosts(s, u, q)
  \/ \E s \in Slots : GetPostsCount(s)
  \/ \E s \in Slots, u \in Callers, a \in UserIdInputs : GetUserPosts(s, u, a)
  \/ \E s \in Slots, u \in Users, id \in IdInputs : GetPostById(s, u, id)
  \/ \E s \in Slots, u \in Callers, g \in SlugInputs : GetPostBySlug(s, u, g)
  \/ \E s \in Slots : GetPostBySlugInc(s)
  \/ \E s \in Slots, u \in Users, b \in CreateBodies : CreatePost(s, u, b)
  \/ \E s \in Slots : CreatePostSave(s)
  \/ \E s \in Slots, u \in Users, id \in IdInputs, b \in UpdateBodies : UpdatePost(s, u, id, b)
  \/ \E s \in Slots : UpdatePostWrite(s)
  \/ \E s \in Slots, u \in Users, id \in IdInputs : DeletePost(s, u, id)
  \/ \E s \in Slots : DeletePostRemove(s)
  \/ \E s \in Slots, u \in Users, id \in IdInputs : ToggleLike(s, u, id)
  \/ \E s \in Slots : ToggleLikeSave(s)

Spec == Init /\ [][Next]_vars

(* ------------------------------------------------------------------ *)
(* The server taking only the requests one group of properties is      *)
(* about, from fewer inputs and for more requests.                     *)
(* ------------------------------------------------------------------ *)
\* A well-formed create body with the given title and privacy.
PostBody(title, privacy) ==
  [EmptyBody EXCEPT !.title = Some(title), !.content = ValidContent, !.tags = ValidTags,
                    !.privacy = Some(privacy)]

PostIds == 1..MaxPosts

\* Slugs: create, update of the title, delete, get by slug and like.
NextSlug ==
  \/ Tick
  \/ \E s \in Slots, t \in {<<"A">>, <<"a", " ", "1">>} :
       CreatePost(s, "ann", PostBody(t, "public"))
  \/ \E s \in Slots : CreatePostSave(s)
  \/ \E s \in Slots, id \in PostIds :
       UpdatePost(s, "ann", id, [EmptyBody EXCEPT !.title = Some(<<"a", " ", "1">>)])
  \/ \E s \in Slots : UpdatePostWrite(s)
  \/ \E s \in Slots, id \in PostIds : DeletePost(s, "ann", id)
  \/ \E s \in Slots : DeletePostRemove(s)
  \/ \E s \in Slots, g \in SlugInputs : GetPostBySlug(s, Anon, g)
  \/ \E s \in Slots : GetPostBySlugInc(s)
  \/ \E s \in Slots, id \in PostIds : ToggleLike(s, "ann", id)
  \/ \E s \in Slots : ToggleLikeSave(s)

SpecSlug == InitWith(OpsSlug) /\ [][NextSlug]_vars

\* Likes: like by either user, on a public and on a private post, with
\* updates of the privacy and deletes.
NextLike ==
  \/ \E s \in Slots, b \in {PostBody(<<"A">>, "public"), PostBody(<<"B">>, "private")} :
       CreatePost(s, "ann", b)
  \/ \E s \in Slots : CreatePostSave(s)
  \/ \E s \in Slots, id \in PostIds, v \in PrivacyEnum :
       UpdatePost(s, "ann", id, [EmptyBody EXCEPT !.privacy = Some(v)])
  \/ \E s \in Slots : UpdatePostWrite(s)
  \/ \E s \in Slots, id \in PostIds : DeletePost(s, "ann", id)
  \/ \E s \in Slots : DeletePostRemove(s)
  \/ \E s \in Slots, u \in Users, id \in PostIds : ToggleLike(s, u, id)
  \/ \E s \in Slots : ToggleLikeSave(s)

SpecLike == InitWith(OpsLike) /\ [][NextLike]_vars

\* Reading: get by slug, list and list by author, by every caller, of
\* public and private posts, published or made drafts.
NextRead ==
  \/ \E s \in Slots, u \in Users,
        b \in {PostBody(<<"A">>, "public"), PostBody(<<"B">>, "private")} :
       CreatePost(s, u, b)
  \/ \E s \in Slots : CreatePostSave(s)
  \/ \E s \in Slots, u \in Users, id \in PostIds,
        b \in {[EmptyBody EXCEPT !.status = Some("draft")],
               [EmptyBody EXCEPT !.status = Some("published")],
               [EmptyBody EXCEPT !.privacy = Some("private")]} :
       UpdatePost(s, u, id, b)
  \/ \E s \in Slots : UpdatePostWrite(s)
  \/ \E s \in Slots, u \in Callers, g \in SlugInputs : GetPostBySlug(s, u, g)
  \/ \E s \in Slots : GetPostBySlugInc(s)
  \/ \E s \in Slots, u \in Callers : GetPosts(s, u, EmptyQuery)
  \/ \E s \in Slots : GetPostsCount(s)
  \/ \E s \in Slots, u \in Callers, a \in Users : GetUserPosts(s, u, a)

SpecRead == InitWith(OpsRead) /\ [][NextRead]_vars

\* Derived fields: create with contents up to and over one minute of
\* reading, with and without an excerpt, and updates of the content.
DeriveContents ==
  {<<"#", "w", " ", "w">>,
   WordsText(WordsPerMinute),
   <<" ">> \o WordsText(WordsPerMinute),
   <<"*">> \o WordsText(WordsPerMinute) \o <<" ">>}

DeriveBodies ==
  {[PostBody(<<"A">>, "public") EXCEPT !.content = Some(c), !.excerpt = e] :
     c \in DeriveContents, e \in {None, Some(<<>>), Some(<<"e">>)}}

NextDerive ==
  \/ \E s \in Slots, b \in DeriveBodies : CreatePost(s, "ann", b)
  \/ \E s \in Slots : CreatePostSave(s)
  \/ \E s \in Slots, id \in PostIds, c \in DeriveContents :
       UpdatePost(s, "ann", id, [EmptyBody EXCEPT !.content = Some(c)])
  \/ \E s \in Slots : UpdatePostWrite(s)

SpecDerive == InitWith(OpsDerive) /\ [][NextDerive]_vars

\* What only the author, or the author and the admin, may do: get by id
\* and delete, of posts of both users, with updates and likes in flight
\* and requests for posts that were deleted.
OwnerSlugs ==
  {HookSlugBase(t) \o <<"-">> \o Decimal(k) : t \in {<<"A">>, <<"B">>}, k \in 1..now}

NextOwner ==
  \/ \E s \in Slots, u \in Users,
        b \in {PostBody(<<"A">>, "public"), PostBody(<<"B">>, "private")} :
       CreatePost(s, u, b)
  \/ \E s \in Slots : CreatePostSave(s)
  \/ \E s \in Slots, u \in Users, id \in PostIds :
       UpdatePost(s, u, id, [EmptyBody EXCEPT !.status = Some("draft")])
  \/ \E s \in Slots : UpdatePostWrite(s)
  \/ \E s \in Slots, u \in Users, id \in PostIds : DeletePost(s, u, id)
  \/ \E s \in Slots : DeletePostRemove(s)
  \/ \E s \in Slots, id \in PostIds : ToggleLike(s, "ann", id)
  \/ \E s \in Slots : ToggleLikeSave(s)
  \/ \E s \in Slots, u \in Users, id \in PostIds : GetPostById(s, u, id)
  \/ \E s \in Slots, g \in OwnerSlugs : GetPostBySlug(s, Anon, g)
  \/ \E s \in Slots : GetPostBySlugInc(s)

SpecOwner == InitWith(OpsOwner) /\ [][NextOwner]_vars

\* Deleted posts: one user creates and deletes posts of one title, with
\* updates, likes and reads by id and by slug before, during and after.
NextGone ==
  \/ \E s \in Slots : CreatePost(s, "ann", PostBody(<<"A">>, "public"))
  \/ \E s \in Slots : CreatePostSave(s)
  \/ \E s \in Slots, id \in PostIds :
       UpdatePost(s, "ann", id, [EmptyBody EXCEPT !.status = Some("draft")])
  \/ \E s \in Slots : UpdatePostWrite(s)
  \/ \E s \in Slots, id \in PostIds : DeletePost(s, "ann", id)
  \/ \E s \in Slots : DeletePostRemove(s)
  \/ \E s \in Slots, id \in PostIds : ToggleLike(s, "ann", id)
  \/ \E s \in Slots : ToggleLikeSave(s)
  \/ \E s \in Slots, id \in PostIds : GetPostById(s, "ann", id)
  \/ \E s \in Slots, g \in OwnerSlugs : GetPostBySlug(s, Anon, g)
  \/ \E s \in Slots : GetPostBySlugInc(s)

SpecGone == InitWith(OpsGone) /\ [][NextGone]_vars

\* Listing: posts of either tag, made in the same or in different
\* milliseconds, some made drafts, listed with every query.
NextList ==
  \/ Tick
  \/ \E s \in Slots, u \in Users, g \in {<<"technical">>, <<"personal">>} :
       CreatePost(s, u, [PostBody(<<"A">>, "public") EXCEPT !.tags = Some(g)])
  \/ \E s \in Slots : CreatePostSave(s)
  \/ \E s \in Slots, id \in PostIds :
       UpdatePost(s, "ann", id, [EmptyBody EXCEPT !.status = Some("draft")])
  \/ \E s \in Slots : UpdatePostWrite(s)
  \/ \E s \in Slots, u \in {Anon, "ann"}, q \in QueryInputs : GetPosts(s, u, q)
  \/ \E s \in Slots : GetPostsCount(s)

SpecList == InitWith(OpsList) /\ [][NextList]_vars

\* Every operation, with requests that are refused: malformed input,
\* identifiers of no post, and callers who are not the author.
FrameIds == {1, BadId}

FrameBodies ==
  {[EmptyBody EXCEPT !.title = Some(<<"B">>), !.views = Some(0)],
   [EmptyBody EXCEPT !.tags = Some(<<>>)]}

NextFrame ==
  \/ \E s \in Slots,
        b \in {PostBody(<<"A">>, "public"), PostBody(<<"B">>, "private"),
               PostBody(<<" ">>, "public")} :
       CreatePost(s, "root", b)
  \/ \E s \in Slots : CreatePostSave(s)
  \/ \E s \in Slots, u \in Users, id \in FrameIds, b \in FrameBodies :
       UpdatePost(s, u, id, b)
  \/ \E s \in Slots : UpdatePostWrite(s)
  \/ \E s \in Slots, u \in Users, id \in FrameIds : DeletePost(s, u, id)
  \/ \E s \in Slots : DeletePostRemove(s)
  \/ \E s \in Slots, u \in Users, id \in FrameIds : ToggleLike(s, u, id)
  \/ \E s \in Slots : ToggleLikeSave(s)
  \/ \E s \in Slots, u \in Users, id \in FrameIds : GetPostById(s, u, id)
  \/ \E s \in Slots, g \in SlugInputs : GetPostBySlug(s, Anon, g)
  \/ \E s \in Slots : GetPostBySlugInc(s)
  \/ \E s \in Slots, q \in {EmptyQuery, [EmptyQuery EXCEPT !.limit = Some(MaxLimit + 1)]} :
       GetPosts(s, Anon, q)
  \/ \E s \in Slots : GetPostsCount(s)
  \/ \E s \in Slots, a \in {"root", "malformed"} : GetUserPosts(s, Anon, a)

SpecFrame == InitWith(OpsFrame) /\ [][NextFrame]_vars

\* Writing: create and update with every body, by every user.
NextWrite ==
  \/ \E s \in Slots, u \in Users, b \in CreateBodies : CreatePost(s, u, b)
  \/ \E s \in Slots : CreatePostSave(s)
  \/ \E s \in Slots, u \in Users, id \in IdInputs, b \in UpdateBodies : UpdatePost(s, u, id, b)
  \/ \E s \in Slots : UpdatePostWrite(s)

SpecWrite == InitWith(OpsWrite) /\ [][NextWrite]_vars

(* ------------------------------------------------------------------ *)
(* Properties.                                                         *)
(* ------------------------------------------------------------------ *)
\* The request received in this step (a step that takes one from the
\* budget): it is being served on a connection, or was answered at once.
Arrives == budget' < budget
Arrived ==
  IF \E s \in Slots : reqs[s].pc = "idle" /\ reqs'[s].pc # "idle"
  THEN reqs'[CHOOSE s \in Slots : reqs[s].pc = "idle" /\ reqs'[s].pc # "idle"]
  ELSE last'

\* Connection s ends, in this step, a request that was at position pc of op.
Ends(s, op, pc) == reqs[s].op = op /\ reqs[s].pc = pc /\ reqs'[s].pc = "idle"

NoRepeat(q) == \A i, j \in 1..Len(q) : i # j => q[i] # q[j]

\* C1: in every reachable state, no two stored posts have the same slug.
C1_SlugsUnique ==
  \A i, j \in DOMAIN posts : i # j => posts[i].slug # posts[j].slug

\* C1 witness: a create was refused by the store while a post with its
\* title, created in the same millisecond, is stored.
C1_Witness ==
  /\ last.op = "create"
  /\ last.res.status = 500
  /\ \E p \in Docs : p.title = Val(last.body.title) /\ p.createdAt = now

\* C2: a create request whose title is the title of a stored post is
\* rejected with a conflict response (a 4xx one) and leaves the stored posts
\* as they were.
C2_DuplicateTitleRejected ==
  [][(/\ Arrives
      /\ Arrived.op = "create"
      /\ Has(Arrived.body.title)
      /\ \E p \in Docs : p.title = Trim(Val(Arrived.body.title)))
     => (/\ Arrived.pc = "done"
         /\ Arrived.res.status \in {400, 409}
         /\ posts' = posts)]_vars

\* C3: get by slug of a private post answers 403 without the post to an
\* anonymous caller and to a signed-in caller who is not the author, and
\* answers the author with the post.
C3_PrivateBySlug ==
  (last.op = "getSlug" /\ Has(last.post) /\ Val(last.post).privacy = "private")
  => IF last.user = Val(last.post).author
     THEN last.res.status = 200 /\ last.res.post = last.post
     ELSE last.res.status = 403 /\ last.res.post = None

\* C3 witness: a signed-in caller who is not the author was refused a
\* private post.
C3_Witness ==
  /\ last.op = "getSlug"
  /\ Has(last.post)
  /\ Val(last.post).privacy = "private"
  /\ last.user \in Users
  /\ last.user # Val(last.post).author
  /\ last.res.status = 403

\* C4: the likes of a post never hold the same user twice.
C4_NoDuplicateLikes == \A p \in Docs : NoRepeat(p.likes)

\* C5: a listing holds only public posts and private posts of the caller.
C5_ListingsVisible ==
  (last.op \in {"list", "listUser"})
  => \A i \in 1..Len(last.res.posts) :
       \/ last.res.posts[i].privacy = "public"
       \/ (last.user # Anon /\ last.res.posts[i].author = last.user)

\* C5 witness: a list answered to a signed-in caller holds that caller's
\* private post while a published private post of another author is stored.
C5_Witness ==
  /\ last.op = "list"
  /\ last.res.status = 200
  /\ last.user \in Users
  /\ \E i \in 1..Len(last.res.posts) : last.res.posts[i].privacy = "private"
  /\ \E p \in Docs : p.privacy = "private" /\ p.status = "published" /\ p.author # last.user

\* C6: a get by slug goes on to count the view exactly when the post is
\* public and the caller is not its author, and the stored views of a post
\* grow by one in the step that counts a view of it and in no other step.
C6_ViewsStep ==
  /\ \A id \in (DOMAIN posts) \cap (DOMAIN posts') :
       posts'[id].views =
         posts[id].views
         + (IF \E s \in Slots : Ends(s, "getSlug", "inc") /\ Val(reqs[s].post).id = id
            THEN 1 ELSE 0)
  /\ (Arrives /\ Arrived.op = "getSlug" /\ Has(Arrived.post) /\ Arrived.res.status # 403)
     => IF Val(Arrived.post).privacy = "public" /\ Arrived.user # Val(Arrived.post).author
        THEN Arrived.pc = "inc"
        ELSE Arrived.pc = "done" /\ Arrived.res.status = 200

C6_ViewsExact == [][C6_ViewsStep]_vars

\* C6 witness: a view is about to be counted for a post whose stored views
\* have grown since this request read it.
C6_Witness ==
  \E s \in Slots :
    /\ reqs[s].op = "getSlug"
    /\ reqs[s].pc = "inc"
    /\ Exists(Val(reqs[s].post).id)
    /\ posts[Val(reqs[s].post).id].views > Val(reqs[s].post).views

\* The stored post after a like request of u that runs alone.
AfterToggle(p, u) ==
  [p EXCEPT !.likes = SavedLikes(p, [p EXCEPT !.likes = ToggledLikes(u, p)], IsLiked(u, p), u),
            !.ver = @ + 1]

\* C7: two like requests of one user in a row leave the members and the
\* number of the likes as they were, the first answering liked = not(liked
\* before) and the second liked = (liked before).
C7_LikeRoundTrip ==
  \A id \in DOMAIN posts : \A u \in Users :
    MayLike(u, posts[id])
    => LET p0 == posts[id]
           p1 == AfterToggle(p0, u)
           p2 == AfterToggle(p1, u)
       IN /\ SeqToSet(p2.likes) = SeqToSet(p0.likes)
          /\ Len(p2.likes) = Len(p0.likes)
          /\ (~IsLiked(u, p0)) = (u \in SeqToSet(p1.likes))
          /\ (~IsLiked(u, p1)) = (u \in SeqToSet(p0.likes))

\* What the data model asks of tags.
TagsWellFormed(tags) ==
  /\ Len(tags) \in {1, 2}
  /\ \A i \in 1..Len(tags) : tags[i] \in {"technical", "personal"}

\* C8: every stored post has one or two tags, each technical or personal;
\* a create or update request with other tags is answered 400 and changes
\* nothing.
C8_StoredTags == \A p \in Docs : TagsWellFormed(p.tags)

C8_RejectStep ==
  (/\ Arrives
   /\ Arrived.op \in {"create", "update"}
   /\ Has(Arrived.body.tags)
   /\ ~TagsWellFormed(Val(Arrived.body.tags)))
  => (Arrived.pc = "done" /\ Arrived.res.status = 400 /\ posts' = posts)

C8_Tags == []C8_StoredTags /\ [][C8_RejectStep]_vars

\* C8 witness: an update with three tags was answered 400 for a stored post.
C8_Witness ==
  /\ last.op = "update"
  /\ Exists(last.id)
  /\ Has(last.body.tags)
  /\ Len(Val(last.body.tags)) = 3
  /\ last.res.status = 400

\* C9: a well-formed update request for a stored post from a caller who is
\* not its author is answered 403 at once and changes nothing; only the
\* author's update is written.
C9_UpdateStep ==
  /\ (Arrives /\ Arrived.op = "update" /\ Exists(Arrived.id)
      /\ Arrived.user # posts[Arrived.id].author)
     => /\ Arrived.pc = "done"
        /\ Arrived.res.status \in {400, 403}
        /\ (Arrived.body = [EmptyBody EXCEPT !.status = Some("published")]
            => Arrived.res.status = 403)
        /\ posts' = posts
  /\ \A s \in Slots :
       (Ends(s, "update", "write") /\ Exists(reqs[s].id) /\ posts'[reqs[s].id] # posts[reqs[s].id])
       => reqs[s].user = posts[reqs[s].id].author

C9_AuthorOnlyUpdate == [][C9_UpdateStep]_vars

\* C9 witness: the admin, who is not the author, was refused the update of
\* a draft to published.
C9_Witness ==
  /\ last.op = "update"
  /\ last.res.status = 403
  /\ Role(last.user) = "admin"
  /\ last.body.status = Some("published")
  /\ Exists(last.id)
  /\ posts[last.id].status = "draft"

\* C10: no listing holds a draft.
C10_NoDraftListed ==
  (last.op \in {"list", "listUser"})
  => \A i \in 1..Len(last.res.posts) : last.res.posts[i].status # "draft"

\* C10 witness: the author of a stored public draft listed their own posts.
C10_Witness ==
  /\ last.op = "listUser"
  /\ last.res.status = 200
  /\ last.slug = <<last.user>>
  /\ \E p \in Docs : p.author = last.user /\ p.status = "draft" /\ p.privacy = "public"

\* The words of a text: its maximal runs of characters that are not
\* whitespace.
WordsIn(text) ==
  Cardinality({i \in 1..Len(text) :
                 ~IsSpace(text[i]) /\ (i = 1 \/ IsSpace(text[i - 1]))})

\* m is n / d rounded up.
IsCeilOf(m, n, d) == m * d >= n /\ (m - 1) * d < n

\* C13: every stored post's readTime is the one the create derivation gives
\* for its current content.
C13_ReadTimeCurrent == \A p \in Docs : p.readTime = ReadTimeOf(p.content)

\* C14: the post a create request stored has the readTime ceil(w / 200),
\* w the number of words of its content.
C14_ReadTimeOnCreate ==
  (last.op = "create" /\ last.res.status = 201)
  => IsCeilOf(Val(last.res.post).readTime, WordsIn(Val(last.res.post).content), 200)

\* t is x without the whitespace at its two ends.
IsTrimOf(t, x) ==
  /\ (t # <<>> => ~IsSpace(t[1]) /\ ~IsSpace(t[Len(t)]))
  /\ \E a \in 0..(Len(x) - Len(t)) :
       /\ t = SubSeq(x, a + 1, a + Len(t))
       /\ \A i \in (1..a) \cup ((a + Len(t) + 1)..Len(x)) : IsSpace(x[i])

\* C15: the post a create request stored has the excerpt of the body when
\* the body has a non-empty one; otherwise its excerpt is the content
\* without the characters # * and backquote, cut to its first 150
\* characters, trimmed, with "..." after it, 153 characters at most.
C15_ExcerptOnCreate ==
  (last.op = "create" /\ last.res.status = 201)
  => LET p == Val(last.res.post)
         e == p.excerpt
         plain == SelectSeq(p.content, LAMBDA c : c \notin {"#", "*", Backquote})
         cut == SubSeq(plain, 1, IF Len(plain) > 150 THEN 150 ELSE Len(plain))
     IN IF Has(last.body.excerpt) /\ Val(last.body.excerpt) # <<>>
        THEN e = Val(last.body.excerpt)
        ELSE /\ Len(e) >= 3
             /\ Len(e) <= 153
             /\ SubSeq(e, Len(e) - 2, Len(e)) = <<".", ".", ".">>
             /\ IsTrimOf(SubSeq(e, 1, Len(e) - 3), cut)

\* C15 witness: a post was created, without an excerpt, from a content of
\* more than 150 characters that holds a marker, and the cut text lost a
\* space to the trim.
C15_Witness ==
  /\ last.op = "create"
  /\ last.res.status = 201
  /\ last.body.excerpt = None
  /\ Len(Val(last.res.post).content) > 150
  /\ "*" \in SeqToSet(Val(last.res.post).content)
  /\ Len(Val(last.res.post).excerpt) = 152

\* C11: a delete request for a stored post goes on to the removal, which
\* answers 200, exactly when the caller is the author or has the admin
\* role; from any other caller it is answered 403 and every post is left
\* as it was.
C11_DeleteStep ==
  /\ (Arrives /\ Arrived.op = "delete" /\ Exists(Arrived.id))
     => /\ posts' = posts
        /\ IF Arrived.user = posts[Arrived.id].author \/ Role(Arrived.user) = "admin"
           THEN Arrived.pc = "remove"
           ELSE Arrived.pc = "done" /\ Arrived.res.status = 403
  /\ (Arrives /\ Arrived.op = "delete" /\ Arrived.pc = "done")
     => Arrived.res.status \in {400, 403, 404}
  /\ \A s \in Slots :
       Ends(s, "delete", "remove")
       => /\ last'.res.status = 200
          /\ reqs[s].id \notin DOMAIN posts'
          /\ \A id \in (DOMAIN posts) \ {reqs[s].id} :
               id \in DOMAIN posts' /\ posts'[id] = posts[id]

Deleted == (1..(nextId - 1)) \ (DOMAIN posts)

\* A delete removes the post, and a post once removed stays absent.
C12_Absent ==
  /\ \A id \in Deleted : id \notin DOMAIN posts'
  /\ \A s \in Slots : Ends(s, "delete", "remove") => reqs[s].id \notin DOMAIN posts'

\* A get by id, update, delete or like request that arrives for a deleted
\* post is answered 404.
C12_ById404 ==
  (Arrives /\ Arrived.op \in {"getId", "update", "delete", "like"} /\ Arrived.id \in Deleted)
  => (Arrived.pc = "done" /\ Arrived.res.status = 404)

\* A get by slug request arrives for the slug of the post whose delete was
\* answered last.
C12_BySlugArrives ==
  /\ Arrives
  /\ Arrived.op = "getSlug"
  /\ last.op = "delete"
  /\ last.res.status = 200
  /\ Arrived.slug = Val(last.post).slug

\* C12: a post that a delete removed is absent from then on, whatever
\* request was reading it; a get by id, get by slug, update, delete or
\* like request that arrives for it is answered 404.
C12_DeletedAnswers404 ==
  [][/\ C12_Absent
     /\ C12_ById404
     /\ C12_BySlugArrives => (Arrived.pc = "done" /\ Arrived.res.status = 404)]_vars

\* C12 as amended: the same, but a get by slug for the slug of a deleted
\* post is answered 404 or finds another post, never the deleted one.
C12_DeletedStaysDeleted ==
  [][/\ C12_Absent
     /\ C12_ById404
     /\ C12_BySlugArrives
        => \/ Arrived.pc = "done" /\ Arrived.res.status = 404
           \/ /\ Val(Arrived.post).id # last.id
              /\ Val(Arrived.post).id \in DOMAIN posts
              /\ Val(Arrived.post).id \notin Deleted
     /\ (Arrives /\ Arrived.op = "getSlug" /\ Has(Arrived.post))
        => Val(Arrived.post).id \notin Deleted]_vars

\* C12 witness: a like that had read a post before its delete was saved
\* after it, and the post is absent.
C12_Witness ==
  /\ last.op = "like"
  /\ last.res.status = 500
  /\ last.id \in Deleted

\* C16: get by id answers the author with the whole post, and every other
\* signed-in caller 403 without the post; it leaves the store as it was.
C16_Answer ==
  (last.op = "getId" /\ Has(last.post))
  => IF last.user = Val(last.post).author
     THEN /\ last.res.status = 200
          /\ last.res.post = last.post
          /\ "content" \in DOMAIN Val(last.res.post)
     ELSE last.res.status = 403 /\ last.res.post = None

C16_Step ==
  (Arrives /\ Arrived.op = "getId") => (Arrived.pc = "done" /\ posts' = posts)

C16_GetByIdAuthorOnly == []C16_Answer /\ [][C16_Step]_vars

\* C16 witness: the admin was refused a public, published post of another
\* user.
C16_Witness ==
  /\ last.op = "getId"
  /\ last.res.status = 403
  /\ Role(last.user) = "admin"
  /\ Val(last.post).privacy = "public"
  /\ Val(last.post).status = "published"

\* C17: the featured flag of a post becomes true only in the step that
\* ends a create or an update of a caller with the admin role whose body
\* has featured true; a create of another caller stores it false and an
\* update of another caller leaves it as it was.
C17_FeaturedStep ==
  /\ \A id \in DOMAIN posts' :
       (posts'[id].featured /\ (id \in DOMAIN posts => ~posts[id].featured))
       => \E s \in Slots :
            /\ Ends(s, "create", "save") \/ Ends(s, "update", "write")
            /\ Role(reqs[s].user) = "admin"
            /\ reqs[s].body.featured = Some(TRUE)
  /\ \A s \in Slots :
       (Ends(s, "create", "save") /\ Role(reqs[s].user) # "admin" /\ last'.res.status = 201)
       => ~Val(last'.res.post).featured
  /\ \A s \in Slots :
       (Ends(s, "update", "write") /\ Role(reqs[s].user) # "admin" /\ Exists(reqs[s].id))
       => posts'[reqs[s].id].featured = posts[reqs[s].id].featured

C17_FeaturedByAdminOnly == [][C17_FeaturedStep]_vars

\* C17 witness: an update with featured true, of a caller who is not an
\* admin, was answered 200 and the post is not featured.
C17_Witness ==
  /\ last.op = "update"
  /\ last.res.status = 200
  /\ Role(last.user) # "admin"
  /\ last.body.featured = Some(TRUE)
  /\ Exists(last.id)
  /\ ~posts[last.id].featured

\* C18: a like request for a stored post is answered 403, with the store
\* left as it was, when the post is private and the caller is not its
\* author; otherwise it goes on to save the toggled likes, and a save
\* answered 200 has flipped the caller's membership in the stored likes.
C18_LikeStep ==
  /\ (Arrives /\ Arrived.op = "like" /\ Exists(Arrived.id))
     => /\ posts' = posts
        /\ IF posts[Arrived.id].privacy = "private"
              /\ Arrived.user # posts[Arrived.id].author
           THEN Arrived.pc = "done" /\ Arrived.res.status = 403
           ELSE /\ Arrived.pc = "save"
                /\ (Arrived.user \in SeqToSet(Val(Arrived.post).likes))
                   = (Arrived.user \notin SeqToSet(posts[Arrived.id].likes))
  /\ \A s \in Slots :
       Ends(s, "like", "save")
       => IF last'.res.status = 200
          THEN (reqs[s].user \in SeqToSet(posts'[reqs[s].id].likes)) = ~reqs[s].isLiked
          ELSE posts' = posts

C18_LikePrivate == [][C18_LikeStep]_vars

\* C18 witness: a caller who is not the author was refused the like of a
\* private post, whose likes are as they were.
C18_Witness ==
  /\ last.op = "like"
  /\ last.res.status = 403
  /\ Exists(last.id)
  /\ posts[last.id].privacy = "private"
  /\ posts[last.id].likes = Val(last.post).likes

\* The fields an update may take from the body.
AllowList == {"title", "content", "tags", "privacy", "excerpt", "coverImage", "status"}

\* C19: the write of an update changes, of the stored post, only fields of
\* the allow-list that the body has, and featured when the caller is an
\* admin and the body has it; a field it took has the value of the body;
\* the author of a stored post never changes.
C19_UpdateFrameStep ==
  /\ \A s \in Slots :
       (Ends(s, "update", "write") /\ Exists(reqs[s].id))
       => LET b == reqs[s].body
              p == posts[reqs[s].id]
              q == posts'[reqs[s].id]
          IN /\ reqs[s].id \in DOMAIN posts'
             /\ \A f \in DOMAIN p :
                  \/ q[f] = p[f]
                  \/ f \in AllowList /\ Has(b[f]) /\ q[f] = Val(b[f])
                  \/ f = "featured" /\ Has(b[f]) /\ Role(reqs[s].user) = "admin"
             /\ \A id \in (DOMAIN posts) \ {reqs[s].id} :
                  id \in DOMAIN posts' /\ posts'[id] = posts[id]
  /\ (Arrives /\ Arrived.op = "update") => posts' = posts
  /\ \A id \in (DOMAIN posts) \cap (DOMAIN posts') : posts'[id].author = posts[id].author

C20_UpdateValidated ==
  [][(/\ Arrives
      /\ Arrived.op = "update"
      /\ Exists(Arrived.id)
      /\ Arrived.user = posts[Arrived.id].author
      /\ \/ Has(Arrived.body.excerpt) /\ Len(Val(Arrived.body.excerpt)) > 300
         \/ Has(Arrived.body.status) /\ Val(Arrived.body.status) \notin {"draft", "published"})
     => (/\ Arrived.pc = "done"
         /\ Arrived.res.status = 400
         /\ posts' = posts)]_vars

\* C22: a list request whose tags are a non-empty subset of technical and
\* personal, in either order, goes on with exactly the published posts the
\* caller may see that have one of the tags; with any other tags it is
\* answered 400.
C22_TagsFilter ==
  [][(/\ Arrives
      /\ Arrived.op = "list"
      /\ Has(Arrived.query.tags)
      /\ Arrived.query.page = None
      /\ Arrived.query.limit = None)
     => LET tags == Val(Arrived.query.tags)
            u == Arrived.user
        IN IF tags \in {<<"technical">>, <<"personal">>,
                        <<"technical", "personal">>, <<"personal", "technical">>}
           THEN /\ Arrived.pc = "count"
                /\ SeqToSet(Arrived.found)
                   = {Summary(p) : p \in {x \in Docs :
                        /\ x.status = "published"
                        /\ (x.privacy = "public" \/ (u # Anon /\ x.author = u))
                        /\ \E i \in 1..Len(x.tags), j \in 1..Len(tags) : x.tags[i] = tags[j]}}
           ELSE Arrived.pc = "done" /\ Arrived.res.status = 400]_vars

\* The posts a list request of caller u with query q matches.
Matching(u, q) == {p \in Docs : ListFilter(u, q, p)}

\* found is page pg, of l posts a page, of the posts of S with the newest
\* first.
IsPageOf(found, S, pg, l) ==
  LET n == Cardinality(S)
      rest == n - (pg - 1) * l
      cnt == IF rest < 0 THEN 0 ELSE IF rest < l THEN rest ELSE l
  IN /\ Len(found) = cnt
     /\ \E all \in [1..n -> S] :
          /\ \A i, j \in 1..n : i < j => all[i] # all[j] /\ all[i].createdAt >= all[j].createdAt
          /\ \A k \in 1..cnt : found[k] = Summary(all[(pg - 1) * l + k])

\* C23: a valid list request finds the posts at positions (p-1)*l+1 .. p*l
\* of the matching posts, newest first (p and l default to 1 and 10), and
\* its response carries them with total, the number of matching posts when
\* they are counted, pages = ceil(total / l), hasNext = (p * l < total)
\* and hasPrev = (p > 1).
C23_PageStep ==
  /\ (Arrives /\ Arrived.op = "list" /\ Arrived.pc = "count")
     => LET q == Arrived.query
        IN IsPageOf(Arrived.found, Matching(Arrived.user, q),
                    IF Has(q.page) THEN Val(q.page) ELSE 1,
                    IF Has(q.limit) THEN Val(q.limit) ELSE 10)
  /\ \A s \in Slots :
       Ends(s, "list", "count")
       => LET q == reqs[s].query
              pg == IF Has(q.page) THEN Val(q.page) ELSE 1
              l == IF Has(q.limit) THEN Val(q.limit) ELSE 10
              total == Cardinality(Matching(reqs[s].user, q))
              m == Val(last'.res.pagination)
          IN /\ last'.res.status = 200
             /\ last'.res.posts = reqs[s].found
             /\ m.page = pg /\ m.limit = l /\ m.total = total
             /\ IsCeilOf(m.pages, total, l)
             /\ m.hasNext = (pg * l < total)
             /\ m.hasPrev = (pg > 1)

C23_Pagination == [][C23_PageStep]_vars

\* C23 witness: page 2 of one post a page was answered with the older of
\* two matching posts.
C23_Witness ==
  /\ last.op = "list"
  /\ last.res.status = 200
  /\ last.query.page = Some(2)
  /\ last.query.limit = Some(1)
  /\ Len(last.res.posts) = 1
  /\ Val(last.res.pagination).total = 2
  /\ Val(last.res.pagination).pages = 2
  /\ ~Val(last.res.pagination).hasNext
  /\ \E p \in Docs : p.createdAt > last.res.posts[1].createdAt

\* C24: a like request that saves to a stored post, of a user whose own
\* like is as it was when the request read the post, takes effect whatever
\* other users' like requests did in between: it is answered 200 and the
\* user is among the stored likes exactly if not liking before.
C24_ToggleAtomic ==
  [][\A s \in Slots :
       (/\ Ends(s, "like", "save")
        /\ Exists(reqs[s].id)
        /\ IsLiked(reqs[s].user, posts[reqs[s].id]) = reqs[s].isLiked)
       => (/\ last'.res.status = 200
           /\ IsLiked(reqs[s].user, posts'[reqs[s].id]) = ~reqs[s].isLiked)]_vars

\* C25: the slug a create request stores is the slug of the title that the
\* handler looked up, with nothing added to it.
C25_SlugOfTitle ==
  (last.op = "create" /\ last.res.status = 201)
  => Val(last.res.post).slug = Slugify(Val(last.body.title))

\* C26: a like request answered 200 answers with the stored post as its
\* save leaves it: liked says whether the caller is among the stored likes
\* and likesCount is their number.
C26_LikeResponse ==
  [][\A s \in Slots :
       (Ends(s, "like", "save") /\ last'.res.status = 200)
       => (/\ Val(last'.res.liked) = IsLiked(reqs[s].user, posts'[reqs[s].id])
           /\ Val(last'.res.likesCount) = Len(posts'[reqs[s].id].likes))]_vars

\* C28: get by slug of a public draft answers every caller, the anonymous
\* one too, 200 with the whole post, and counts a view when the caller is
\* not the author.
C28_Step ==
  /\ (Arrives /\ Arrived.op = "getSlug")
     => \A p \in Docs :
          (p.slug = Arrived.slug /\ p.status = "draft" /\ p.privacy = "public")
          => IF Arrived.user = p.author
             THEN /\ Arrived.pc = "done"
                  /\ Arrived.res.status = 200
                  /\ Arrived.res.post = Some(p)
             ELSE /\ Arrived.pc = "inc"
                  /\ Arrived.post = Some(p)
  /\ \A s \in Slots :
       (Ends(s, "getSlug", "inc") /\ Val(reqs[s].post).status = "draft")
       => LET p == Val(reqs[s].post) IN
            /\ last'.res.status = 200
            /\ Has(last'.res.post)
            /\ Val(last'.res.post).content = p.content
            /\ Val(last'.res.post).views = p.views + 1
            /\ Exists(p.id) => posts'[p.id].views = posts[p.id].views + 1

C28_DraftBySlug == [][C28_Step]_vars

\* C28 witness: an anonymous caller was answered with a draft and its
\* content, and the view is in the store.
C28_Witness ==
  /\ last.op = "getSlug"
  /\ last.user = Anon
  /\ last.res.status = 200
  /\ Val(last.res.post).status = "draft"
  /\ Val(last.res.post).content # <<>>
  /\ \E p \in Docs : p.id = Val(last.res.post).id /\ p.status = "draft" /\ p.views >= 1

\* C29: an update leaves the likes of the post as they are, and a like
\* request of a user who is among the likes of a private post of another
\* author is answered 403 and leaves the store as it was.
C29_Step ==
  /\ \A s \in Slots :
       (Ends(s, "update", "write") /\ Exists(reqs[s].id))
       => posts'[reqs[s].id].likes = posts[reqs[s].id].likes
  /\ (/\ Arrives
      /\ Arrived.op = "like"
      /\ Exists(Arrived.id)
      /\ posts[Arrived.id].privacy = "private"
      /\ posts[Arrived.id].author # Arrived.user
      /\ Arrived.user \in SeqToSet(posts[Arrived.id].likes))
     => (/\ Arrived.pc = "done"
         /\ Arrived.res.status = 403
         /\ posts' = posts)

C29_LikesKeptWhenPrivate == [][C29_Step]_vars

\* C29 witness: a user who is among the likes of a post that is now private
\* was answered 403 to a like request.
C29_Witness ==
  /\ last.op = "like"
  /\ last.res.status = 403
  /\ \E p \in Docs :
       /\ p.id = last.id
       /\ p.privacy = "private"
       /\ p.author # last.user
       /\ last.user \in SeqToSet(p.likes)

\* C21: the stored views of a post never get smaller, whatever request
\* takes a step, and the write of an update whose body has a views field
\* leaves them as they are.
C21_Step ==
  /\ \A id \in (DOMAIN posts) \cap (DOMAIN posts') : posts'[id].views >= posts[id].views
  /\ \A s \in Slots :
       (/\ Ends(s, "update", "write")
        /\ Has(reqs[s].body.views)
        /\ reqs[s].id \in (DOMAIN posts) \cap (DOMAIN posts'))
       => posts'[reqs[s].id].views = posts[reqs[s].id].views

C21_ViewsMonotone == [][C21_Step]_vars

\* C21 witness: an update whose body asked for fewer views than the post
\* has was answered 200 and took effect.
C21_Witness ==
  /\ last.op = "update"
  /\ last.res.status = 200
  /\ Has(last.body.views)
  /\ \E p \in Docs :
       /\ p.id = last.id
       /\ p.title = Val(last.body.title)
       /\ p.views > Val(last.body.views)

\* A request is answered in this step: at once as it arrives, or by the
\* connection that was serving it.
AnsweredNow ==
  \/ Arrives /\ reqs' = reqs
  \/ \E s \in Slots : reqs[s].pc # "idle" /\ reqs'[s].pc = "idle"

\* C27: a request answered 400, 403 or 404 is refused by the checks its
\* handler makes as it arrives, before any write, and the step leaves the
\* stored posts and the identifiers handed out as they were.
C27_Step ==
  (AnsweredNow /\ last'.res.status \in {400, 403, 404})
  => (Arrives /\ posts' = posts /\ nextId' = nextId)

C27_RefusalFrame == [][C27_Step]_vars

\* C27 witness: refused requests of three kinds met a store with a post
\* that has been read or liked: the last was answered 400, 403 or 404.
C27_Witness ==
  /\ last.res.status \in {400, 403, 404}
  /\ last.op \in {"update", "delete", "like", "getSlug"}
  /\ \E p \in Docs : p.views > 0 \/ p.likes # <<>>

\* The operations that address a post by its identifier.
IdOps == {"getId", "update", "delete", "like"}

\* C30: an operation on a post by identifier answers 400 to a malformed
\* request whether or not the post exists, else 404 to every caller when
\* no post has the identifier, and 403 only for a stored post.
C30_Step ==
  (Arrives /\ Arrived.op \in IdOps)
  => LET r == Arrived
         st == IF r.pc = "done" THEN r.res.status ELSE 0
         malformed == r.id = BadId \/ (r.op = "update" /\ ~ValidUpdate(r.id, r.body))
     IN /\ malformed => st = 400
        /\ (~malformed /\ r.id \notin DOMAIN posts) => st = 404
        /\ st = 403 => (~malformed /\ r.id \in DOMAIN posts)
        /\ st = 404 => (~malformed /\ r.id \notin DOMAIN posts)

C30_CheckOrder == [][C30_Step]_vars

\* C30 witness: a caller who is neither an admin nor the author of any
\* stored post was answered 404 for a well-formed identifier of no post.
C30_Witness ==
  /\ last.op \in IdOps
  /\ last.res.status = 404
  /\ last.user = "ann"
  /\ last.id >= 1
  /\ last.id \notin DOMAIN posts
  /\ Docs # {}

====
